---- MODULE Spec2Model ----
(***************************************************************************)
(* glitchtop: the draw loop of src/config/glitchtop.py as a state machine. *)
(*                                                                         *)
(* Time is counted in hundredths of a second (REFRESH_RATE = 0.85 s = 85,  *)
(* FRAME_DELAY = 0.12 s = 12, a wait of w seconds = Sec(w)).  A call of    *)
(* time.sleep(d) advances the clock by d; every other statement takes no   *)
(* time.  Percentages are whole numbers 0..100.                            *)
(***************************************************************************)
EXTENDS Integers, Sequences, FiniteSets, TLC

VARIABLES
    state,                    \* "RUNNING" (in the while loop), "EXITING" (left by break), "CRASHED" (left by an uncaught exception)
    keys,                     \* pending key codes of the curses input queue, oldest first
    now,                      \* time.time()
    last_status_glitch_time,  \* draw's local of that name
    next_wait,                \* the value random.uniform(MIN_WAIT, MAX_WAIT) last returned at line 137 (0 before the first call)
    frames,                   \* frames glitch_line drew in the latest iteration (0: not called)
    cpu, mem,                 \* the latest sample
    status_text_val,          \* get_system_status(cpu, mem) of the latest sample ("" before the first)
    status_row,               \* what line 140 last wrote on the status row: [text, color]
    yielded,                  \* what process_iter yielded the last time line 167 ran: [pid, cpu, read] each
    enumerated,               \* processes after the for loop of lines 167-180, before the sort
    processes,                \* processes after the sort of line 181
    rows,                     \* the table rows written by the latest iteration, top first
    table,                    \* the table area of the screen, row 1..TOP_N_PROCS (Blank: never written)
    log_lines,                \* draw's local of that name
    log_block,                \* the log area of the screen, as last written by line 214
    events,                   \* the calls the latest iteration made, in order
    iters,                    \* iterations begun (calls of getch)
    ticks,                    \* iterations that ran to the sleep of line 217
    exit_code,                \* the exit code of the process (NoExit while it runs)
    status_cells,             \* the characters on the status row, column 4 to column 4 + STATUS_WIDTH - 1
    anim,                     \* one call of glitch_line: its arguments, its progress and what it wrote
    ftime                     \* one call of format_time: its argument and its result

vars == <<state, keys, now, last_status_glitch_time, next_wait, frames, cpu, mem,
          status_text_val, status_row, yielded, enumerated, processes, rows, table,
          log_lines, log_block, events, iters, ticks, exit_code, status_cells, anim, ftime>>

\* the variables of the calls of glitch_line and format_time taken alone
call_vars == <<anim, ftime>>

----------------------------------------------------------------------------
(* Program constants *)

TOP_N_PROCS == 25
REFRESH_RATE == 85
MAX_LOG_LINES == 4
MIN_WAIT == 3
MAX_WAIT == 8
MIN_FRAMES == 3
MAX_FRAMES == 6
FRAME_DELAY == 12
KEY_Q == 113
NoKey == -1
MIN_GLITCH_CHARS == 1
MAX_GLITCH_CHARS == 6
STATUS_WIDTH == 40
NoExit == -1

Sec(s) == s * 100

(* Bounds of the model *)

MaxTime == 860         \* no iteration begins at or after this clock value
MaxKeys == 1           \* pending keys the input queue holds at most
WaitStep == 250        \* the drawn waits are MIN_WAIT, MIN_WAIT + WaitStep/100, ..., and MAX_WAIT
MaxLoopProcs == 1      \* processes enumerated per iteration in Spec
MaxProcs == 27         \* processes of the long enumerations of SpecTable
SmallLen == 4          \* processes of the short enumerations of SpecTable (every cpu value at every place)
MaxReadProcs == 2      \* processes of the enumerations of SpecTable whose reads may fail

Blank == [pid |-> 0, cpu |-> 0]
Min(a, b) == IF a < b THEN a ELSE b

----------------------------------------------------------------------------
(* Pure functions *)

\* mutant: the lower bounds taken as exclusive
StatusExclusive(c, m) ==
    IF c > 80 \/ m > 85 THEN "CRITICAL"
    ELSE IF c > 60 \/ m > 70 THEN "DEGRADED"
    ELSE IF c > 40 \/ m > 60 THEN "MONITORING"
    ELSE "NOMINAL"

\* get_system_status(cpu, mem)
get_system_status(c, m) ==
    IF c >= 80 \/ m >= 85 THEN "CRITICAL"
    ELSE IF c >= 60 \/ m >= 70 THEN "DEGRADED"
    ELSE IF c >= 40 \/ m >= 60 THEN "MONITORING"
    ELSE "NOMINAL"

\* the if/elif/else choosing status_color: [pair, bold]
StatusColor(s) ==
    IF s = "CRITICAL" THEN [pair |-> 5, bold |-> TRUE]
    ELSE IF s = "DEGRADED" THEN [pair |-> 1, bold |-> TRUE]
    ELSE [pair |-> 4, bold |-> FALSE]

\* stdscr.getch() in nodelay mode: the oldest pending key, or -1
getch(q) == IF q = <<>> THEN NoKey ELSE Head(q)

\* mutant: the clock compared with the wait, last_status_glitch_time forgotten
GlitchDueSinceStart(t, last, w) == t > w

\* the condition of line 137, with t the clock and w the value drawn
GlitchDue(t, last, w) == t - last > w

\* the clock when glitch_line returns: fr frames, each ending in sleep(frame_delay)
GlitchEnd(t, fr) == t + fr * FRAME_DELAY

\* mutant: the time is reset on every tick
GlitchTimeEveryTick(last, due, t1) == t1

\* lines 137-139: last_status_glitch_time after the if, with t1 the clock when
\* glitch_line returned
NextGlitchTime(last, due, t1) == IF due THEN t1 ELSE last

\* the calls glitch_line makes for fr frames
RECURSIVE GlitchCalls(_)
GlitchCalls(fr) ==
    IF fr = 0 THEN <<>>
    ELSE <<"glitch_addstr", "glitch_refresh", "glitch_sleep">> \o GlitchCalls(fr - 1)

\* the for loop of lines 167-180 over the enumeration en: an entry whose read
\* raises NoSuchProcess or AccessDenied is skipped, the others are appended
RECURSIVE ReadProcs(_)
ReadProcs(en) ==
    IF en = <<>> THEN <<>>
    ELSE IF Head(en).read \in {"NoSuchProcess", "AccessDenied"} THEN ReadProcs(Tail(en))
    ELSE <<[pid |-> Head(en).pid, cpu |-> Head(en).cpu]>> \o ReadProcs(Tail(en))

\* an entry whose cpu_times is None (the field was inaccessible): line 170
\* raises AttributeError, which the except clause of line 179 does not name
ReadRaises(en) == \E i \in 1..Len(en) : en[i].read = "missing"

\* one insertion step of a stable descending sort: p goes after every entry
\* whose key is greater than or equal to its own
RECURSIVE InsertDesc(_, _)
InsertDesc(p, s) ==
    IF s = <<>> THEN <<p>>
    ELSE IF Head(s).cpu >= p.cpu THEN <<Head(s)>> \o InsertDesc(p, Tail(s))
    ELSE <<p>> \o s

RECURSIVE SortFrom(_, _)
SortFrom(done, rest) ==
    IF rest = <<>> THEN done ELSE SortFrom(InsertDesc(Head(rest), done), Tail(rest))

\* mutant: an ascending stable sort, then reversed (equal keys end up in
\* reverse enumeration order)
RECURSIVE InsertAsc(_, _)
InsertAsc(p, s) ==
    IF s = <<>> THEN <<p>>
    ELSE IF Head(s).cpu <= p.cpu THEN <<Head(s)>> \o InsertAsc(p, Tail(s))
    ELSE <<p>> \o s

RECURSIVE SortAscFrom(_, _)
SortAscFrom(done, rest) ==
    IF rest = <<>> THEN done ELSE SortAscFrom(InsertAsc(Head(rest), done), Tail(rest))

SortAscReversed(ps) ==
    LET a == SortAscFrom(<<>>, ps) IN [i \in 1..Len(a) |-> a[Len(a) + 1 - i]]

\* processes.sort(key=lambda x: x['cpu'], reverse=True)
SortByCpuDesc(ps) == SortFrom(<<>>, ps)

\* mutant: the slice is one row too long
TopRowsOneMore(ps) == SubSeq(ps, 1, Min(TOP_N_PROCS + 1, Len(ps)))

\* processes[:TOP_N_PROCS]
TopRows(ps) == SubSeq(ps, 1, Min(TOP_N_PROCS, Len(ps)))

\* mutant: the rows below the last one written are blanked
DrawTableCleared(tb, rs) == [i \in 1..TOP_N_PROCS |-> IF i <= Len(rs) THEN rs[i] ELSE Blank]

\* the table area after the loop of lines 187-201 wrote the rows rs
DrawTable(tb, rs) == [i \in 1..TOP_N_PROCS |-> IF i <= Len(rs) THEN rs[i] ELSE tb[i]]

\* log_message of line 209: strftime's second, cpu and mem
LogMessage(t, c, m) == [ts |-> t \div 100, cpu |-> c, mem |-> m]

\* mutant: the eviction is missing
AppendLogNoEvict(lg, msg) == Append(lg, msg)

\* mutant: pop() instead of pop(0), the newest line is removed
AppendLogPopNewest(lg, msg) ==
    IF Len(lg) + 1 > MAX_LOG_LINES THEN lg ELSE Append(lg, msg)

\* lines 210-212: append, then pop(0) when over MAX_LOG_LINES
AppendLog(lg, msg) ==
    IF Len(lg) + 1 > MAX_LOG_LINES THEN Tail(Append(lg, msg)) ELSE Append(lg, msg)

\* mutant: the block drawn from the list as it was before the append
LogShownBeforeAppend(old, new) == old

\* the list the for loop of line 213 draws: log_lines, already appended to
LogShown(old, new) == new

\* lines 213-214: line i of the list overwrites screen row i of the block;
\* the rows below the list keep what they showed
DrawLog(blk, lg) ==
    [i \in 1..(IF Len(blk) > Len(lg) THEN Len(blk) ELSE Len(lg)) |->
        IF i <= Len(lg) THEN lg[i] ELSE blk[i]]

Repeat(n, e) == [i \in 1..n |-> e]

\* the calls of one iteration up to the overview block (lines 111-163)
HeadCalls(fr) ==
    <<"getch", "sample", "addstr_id">> \o GlitchCalls(fr)
        \o <<"addstr_status">> \o Repeat(7, "addstr_overview")

\* the calls of one iteration from the table header on (lines 185-217)
TailCalls(nrows, nlog) ==
    <<"addstr_table_header">> \o Repeat(nrows, "addstr_row") \o <<"addstr_separator", "log_append">>
        \o Repeat(nlog, "addstr_log") \o <<"refresh", "sleep">>

----------------------------------------------------------------------------
(* Text and the status row *)

Spaces(n) == [i \in 1..n |-> " "]

\* s.ljust(n)
ljust(s, n) == IF Len(s) >= n THEN s ELSE s \o Spaces(n - Len(s))

\* "SYSTEM STATUS: "
StatusPrefix == <<"S", "Y", "S", "T", "E", "M", " ", "S", "T", "A", "T", "U", "S", ":", " ">>

StatusChars(st) ==
    CASE st = "CRITICAL"   -> <<"C", "R", "I", "T", "I", "C", "A", "L">>
      [] st = "DEGRADED"   -> <<"D", "E", "G", "R", "A", "D", "E", "D">>
      [] st = "MONITORING" -> <<"M", "O", "N", "I", "T", "O", "R", "I", "N", "G">>
      [] st = "NOMINAL"    -> <<"N", "O", "M", "I", "N", "A", "L">>

\* STATUS_LINE = f"SYSTEM STATUS: {status_text_val}"
STATUS_LINE(st) == StatusPrefix \o StatusChars(st)

\* stdscr.addstr(row, 4, s, color) on the characters of a row: those under s
\* are overwritten, the others stay
addstr(cells, s) ==
    [i \in 1..Len(cells) |-> IF i <= Len(s) THEN s[i] ELSE cells[i]]

\* line 65 for each pick in turn: glitched[pos] = ch
RECURSIVE Corrupt(_, _)
Corrupt(text, picks) ==
    IF picks = <<>> THEN text
    ELSE Corrupt([text EXCEPT ![Head(picks).pos] = Head(picks).ch], Tail(picks))

\* the string of line 66 for the picks of one frame
FrameText(text, picks) == ljust(Corrupt(text, picks), Len(text))

\* line 140: the clean status line, padded
\* mutant: the line written without ljust(40)
StatusWriteUnpadded(cells, line) == addstr(cells, line)

StatusWrite(cells, line) == addstr(cells, ljust(line, STATUS_WIDTH))

----------------------------------------------------------------------------
(* main *)

\* mutant: the clause written as "except Exception", which KeyboardInterrupt
\* (a BaseException) passes
MainCatchesException(exc) == exc \in {"AttributeError", "ValueError"}

\* the except clause of line 224
MainCatches(exc) == exc = "KeyboardInterrupt"

\* the except clause of line 114 around getch: every Exception, which
\* KeyboardInterrupt is not
PollCatches(exc) == exc \in {"AttributeError", "ValueError"}

\* the exit code of the process when draw returned ("none") or raised exc
ExitOf(exc) == IF exc = "none" \/ MainCatches(exc) THEN 0 ELSE 1

----------------------------------------------------------------------------
(* The loop *)

\* no call of glitch_line, no call of format_time
NoAnim == [status |-> "idle", text |-> <<>>, min_chars |-> 0, max_chars |-> 0, count |-> 0,
           done |-> 0, picked |-> 0, written |-> <<>>, calls |-> <<>>, slept |-> 0]
NoTime == [seconds |-> 0, out |-> <<>>]

Init ==
    /\ state = "RUNNING"
    /\ keys = <<>>
    /\ now = 0
    /\ last_status_glitch_time = 0
    /\ next_wait = 0
    /\ frames = 0
    /\ cpu = 0
    /\ mem = 0
    /\ status_text_val = ""
    /\ status_row = [text |-> "", color |-> [pair |-> 0, bold |-> FALSE]]
    /\ yielded = <<>>
    /\ enumerated = <<>>
    /\ processes = <<>>
    /\ rows = <<>>
    /\ table = [i \in 1..TOP_N_PROCS |-> Blank]
    /\ log_lines = <<>>
    /\ log_block = <<>>
    /\ events = <<>>
    /\ iters = 0
    /\ ticks = 0
    /\ exit_code = NoExit
    /\ status_cells = Spaces(STATUS_WIDTH)
    /\ anim = NoAnim
    /\ ftime = NoTime

\* a key is typed while the program runs
KeyPress(k) ==
    /\ state = "RUNNING"
    /\ Len(keys) < MaxKeys
    /\ keys' = Append(keys, k)
    /\ UNCHANGED <<state, now, last_status_glitch_time, next_wait, frames, cpu, mem,
                   status_text_val, status_row, yielded, enumerated, processes, rows, table,
                   log_lines, log_block, events, iters, ticks, exit_code, status_cells,
                   call_vars>>

\* mutant: the key is acted on at the end of the iteration, after the log
\* append, the flush and the sleep
BreakAfterTick ==
    /\ state' = "EXITING"
    /\ events' = <<"getch", "log_append", "refresh", "sleep">>
    /\ frames' = 0
    /\ rows' = <<>>
    /\ log_lines' = AppendLog(log_lines, LogMessage(now, cpu, mem))
    /\ now' = now + REFRESH_RATE
    /\ exit_code' = ExitOf("none")
    /\ UNCHANGED <<last_status_glitch_time, next_wait, cpu, mem,
                   status_text_val, status_row, yielded, enumerated, processes, table,
                   log_block, ticks, status_cells, call_vars>>

\* lines 111-113 when getch returned ord('q'): break
Break ==
    /\ state' = "EXITING"
    /\ events' = <<"getch">>
    /\ frames' = 0
    /\ rows' = <<>>
    /\ exit_code' = ExitOf("none")
    /\ UNCHANGED <<now, last_status_glitch_time, next_wait, cpu, mem,
                   status_text_val, status_row, yielded, enumerated, processes, table,
                   log_lines, log_block, ticks, status_cells, call_vars>>

\* what the last frame of glitch_line corrupted, in the loop: one character,
\* the first or the last of the line
LastFramePicks(line) == {<<[pos |-> i, ch |-> "!"]>> : i \in {1, Len(line)}}

\* lines 118-217: the iteration after the key check, with the sample (c, m),
\* the wait w drawn at line 137, the frame count fr drawn at line 61 and the
\* enumeration en of process_iter
Body(c, m, w, fr, en) ==
    LET due   == GlitchDue(now, last_status_glitch_time, w)
        nfr   == IF due THEN fr ELSE 0
        t1    == GlitchEnd(now, nfr)
        st    == get_system_status(c, m)
        procs == ReadProcs(en)
        srt   == SortByCpuDesc(procs)
        drawn == TopRows(srt)
        lg    == AppendLog(log_lines, LogMessage(t1, c, m))
        line  == STATUS_LINE(st)
    IN  /\ cpu' = c
        /\ mem' = m
        /\ status_text_val' = st
        /\ next_wait' = w
        /\ frames' = nfr
        /\ last_status_glitch_time' = NextGlitchTime(last_status_glitch_time, due, t1)
        /\ status_row' = [text |-> st, color |-> StatusColor(st)]
        /\ yielded' = en
        /\ \E picks \in (IF due THEN LastFramePicks(line) ELSE {<<>>}) :
              status_cells' = StatusWrite(IF due THEN addstr(status_cells, FrameText(line, picks))
                                         ELSE status_cells,
                                         line)
        /\ UNCHANGED call_vars
        /\ IF ReadRaises(en)
           THEN /\ state' = "CRASHED"
                /\ exit_code' = ExitOf("AttributeError")
                /\ now' = t1
                /\ events' = HeadCalls(nfr)
                /\ rows' = <<>>
                /\ UNCHANGED <<enumerated, processes, table, log_lines, log_block, ticks>>
           ELSE /\ state' = "RUNNING"
                /\ enumerated' = procs
                /\ processes' = srt
                /\ rows' = drawn
                /\ table' = DrawTable(table, drawn)
                /\ log_lines' = lg
                /\ log_block' = DrawLog(log_block, LogShown(log_lines, lg))
                /\ events' = HeadCalls(nfr) \o TailCalls(Len(drawn), Len(lg))
                /\ now' = t1 + REFRESH_RATE
                /\ ticks' = ticks + 1
                /\ UNCHANGED exit_code

\* one iteration of the while loop of draw
Iteration(c, m, w, fr, en) ==
    /\ state = "RUNNING"
    /\ now < MaxTime
    /\ keys' = (IF keys = <<>> THEN keys ELSE Tail(keys))
    /\ iters' = iters + 1
    /\ IF getch(keys) = KEY_Q THEN Break ELSE Body(c, m, w, fr, en)

\* SIGINT arrives while an iteration is at point p: KeyboardInterrupt is
\* raised there and leaves draw; the iteration's inputs are those of Body
Interrupt(p, c, m, w, fr, en) ==
    LET due   == GlitchDue(now, last_status_glitch_time, w)
        nfr   == IF due THEN fr ELSE 0
        t1    == GlitchEnd(now, nfr)
        st    == get_system_status(c, m)
        line  == STATUS_LINE(st)
        procs == ReadProcs(en)
        drawn == TopRows(SortByCpuDesc(procs))
        lg    == AppendLog(log_lines, LogMessage(t1, c, m))
        picks == <<[pos |-> Len(line), ch |-> "!"]>>
        polled == p # "poll"    \* getch returned
        sampled == p \in {"glitch", "render", "sleep"}
        drew == p \in {"render", "sleep"}
    IN  /\ state = "RUNNING"
        /\ now < MaxTime
        /\ polled => getch(keys) # KEY_Q
        /\ p = "poll" => ~PollCatches("KeyboardInterrupt")
        /\ p = "glitch" => due
        /\ p = "sleep" => ~ReadRaises(en)
        /\ state' = "INTERRUPTED"
        /\ exit_code' = ExitOf("KeyboardInterrupt")
        /\ iters' = iters + 1
        /\ keys' = (IF polled /\ keys # <<>> THEN Tail(keys) ELSE keys)
        /\ cpu' = (IF sampled THEN c ELSE cpu)
        /\ mem' = (IF sampled THEN m ELSE mem)
        /\ status_text_val' = (IF sampled THEN st ELSE status_text_val)
        /\ next_wait' = (IF sampled THEN w ELSE next_wait)
        /\ frames' = (IF sampled THEN nfr ELSE 0)
        /\ last_status_glitch_time' =
              (IF drew THEN NextGlitchTime(last_status_glitch_time, due, t1)
               ELSE last_status_glitch_time)
        /\ status_row' = (IF drew THEN [text |-> st, color |-> StatusColor(st)] ELSE status_row)
        /\ status_cells' =
              (IF p = "glitch" THEN addstr(status_cells, FrameText(line, picks))
               ELSE IF drew THEN StatusWrite(status_cells, line)
               ELSE status_cells)
        /\ now' = (IF p = "glitch" THEN GlitchEnd(now, nfr - 1) ELSE IF drew THEN t1 ELSE now)
        /\ yielded' = (IF p = "sleep" THEN en ELSE yielded)
        /\ enumerated' = (IF p = "sleep" THEN procs ELSE enumerated)
        /\ processes' = (IF p = "sleep" THEN SortByCpuDesc(procs) ELSE processes)
        /\ rows' = (IF p = "sleep" THEN drawn ELSE <<>>)
        /\ table' = (IF p = "sleep" THEN DrawTable(table, drawn) ELSE table)
        /\ log_lines' = (IF p = "sleep" THEN lg ELSE log_lines)
        /\ log_block' = (IF p = "sleep" THEN DrawLog(log_block, LogShown(log_lines, lg))
                         ELSE log_block)
        /\ events' =
              (CASE p = "poll"   -> <<"getch">>
                 [] p = "sample" -> <<"getch", "sample">>
                 [] p = "glitch" -> <<"getch", "sample", "addstr_id">> \o GlitchCalls(nfr)
                 [] p = "render" -> HeadCalls(nfr)
                 [] p = "sleep"  -> HeadCalls(nfr) \o TailCalls(Len(drawn), Len(lg)))
        /\ UNCHANGED <<ticks, call_vars>>

----------------------------------------------------------------------------
(* Inputs *)

Keys == {KEY_Q, 120}
Waits == {w \in Sec(MIN_WAIT)..Sec(MAX_WAIT) : (w - Sec(MIN_WAIT)) % WaitStep = 0} \cup {Sec(MAX_WAIT)}
FrameCounts == MIN_FRAMES..MAX_FRAMES
\* line 61 is reached only when the condition of line 137 holds
FrameChoices(w) ==
    IF GlitchDue(now, last_status_glitch_time, w) THEN FrameCounts ELSE {MIN_FRAMES}
Reads == {"ok", "NoSuchProcess", "AccessDenied", "missing"}

\* the samples of Spec: one per status level
LoopSamples == {<<10, 10>>, <<85, 50>>}

\* the enumerations of Spec: pids ascending, as process_iter yields them
LoopEnums ==
    UNION {[1..n -> {[pid |-> 0, cpu |-> 10, read |-> r] : r \in {"ok", "missing"}}]
           : n \in 0..MaxLoopProcs}

WithPids(en) == [i \in 1..Len(en) |-> [pid |-> i, cpu |-> en[i].cpu, read |-> en[i].read]]

Next ==
    \/ \E k \in Keys : KeyPress(k)
    \/ \E s \in LoopSamples, w \in Waits, en \in LoopEnums :
          \E fr \in FrameChoices(w) : Iteration(s[1], s[2], w, fr, WithPids(en))

Spec == Init /\ [][Next]_vars

----------------------------------------------------------------------------
(* The loop with keys typed ahead *)

MaxQueued == 2

\* a key is typed while earlier keys are still unread
KeyPressQueued(k) ==
    /\ state = "RUNNING"
    /\ Len(keys) < MaxQueued
    /\ keys' = Append(keys, k)
    /\ UNCHANGED <<state, now, last_status_glitch_time, next_wait, frames, cpu, mem,
                   status_text_val, status_row, yielded, enumerated, processes, rows, table,
                   log_lines, log_block, events, iters, ticks, exit_code, status_cells,
                   call_vars>>

NextKeys ==
    \/ \E k \in Keys : KeyPressQueued(k)
    \/ \E w \in Waits, en \in LoopEnums :
          \E fr \in FrameChoices(w) : Iteration(85, 50, w, fr, WithPids(en))

SpecKeys == Init /\ [][NextKeys]_vars

----------------------------------------------------------------------------
(* glitch_line, one call frame by frame *)

MaxTextLen == 2
MaxPicks == 2

\* the characters random.choice draws from (two of GLITCH_CHARS)
GlitchChars == {"#", "@"}

\* texts of every length up to MaxTextLen, the empty one included
Texts == {[i \in 1..n |-> "A"] : n \in 0..MaxTextLen}

\* random.randrange(n) raises ValueError for n = 0
RandrangeRaises(n) == n <= 0

\* the k (position, character) choices of one frame
PickSeqs(k, n) == [1..k -> [pos : 1..n, ch : GlitchChars]]

\* mutant: the buffer carried over from the previous frame
StaleCopy(text, written, done) == IF done = 0 THEN text ELSE written

\* glitched = list(text)
FreshCopy(text, written, done) == text

\* "".join(glitched).ljust(len(text)) for the buffer glitched
FrameOf(text, buffer, picks) == ljust(Corrupt(buffer, picks), Len(text))

FrameCalls == <<"addstr", "refresh", "sleep">>

\* glitch_line is called; random.randint picks the number of frames
Call(text, mn, mx, cnt) ==
    /\ anim.status = "idle"
    /\ anim' = [NoAnim EXCEPT !.status = "running", !.text = text,
                              !.min_chars = mn, !.max_chars = mx, !.count = cnt]
    /\ UNCHANGED <<state, now, last_status_glitch_time, next_wait, frames, keys,
                   cpu, mem, status_text_val, status_row, yielded, enumerated,
                   processes, rows, table, log_lines, log_block, events, ticks,
                   iters, exit_code, status_cells, ftime>>

\* one pass of the outer loop: k positions are corrupted in a copy of the
\* text, the frame is written and flushed, the call sleeps
Frame(k) ==
    /\ anim.status = "running"
    /\ anim.done < anim.count
    /\ k \in anim.min_chars..anim.max_chars
    /\ IF k >= 1 /\ RandrangeRaises(Len(anim.text))
         THEN /\ anim' = [anim EXCEPT !.status = "raised"]
              /\ UNCHANGED <<now, status_cells>>
         ELSE \E picks \in PickSeqs(k, Len(anim.text)) :
                LET frame == FrameOf(anim.text, FreshCopy(anim.text, anim.written, anim.done),
                                     picks)
                IN  /\ anim' = [anim EXCEPT !.done = @ + 1, !.picked = k,
                                            !.written = frame,
                                            !.calls = @ \o FrameCalls,
                                            !.slept = @ + FRAME_DELAY]
                    /\ status_cells' = addstr(status_cells, frame)
                    /\ now' = now + FRAME_DELAY
    /\ UNCHANGED <<state, last_status_glitch_time, next_wait, frames, keys,
                   cpu, mem, status_text_val, status_row, yielded, enumerated,
                   processes, rows, table, log_lines, log_block, events, ticks,
                   iters, exit_code, ftime>>

\* the outer loop is exhausted and glitch_line returns
Return ==
    /\ anim.status = "running"
    /\ anim.done = anim.count
    /\ anim' = [anim EXCEPT !.status = "returned"]
    /\ UNCHANGED <<state, now, last_status_glitch_time, next_wait, frames, keys,
                   cpu, mem, status_text_val, status_row, yielded, enumerated,
                   processes, rows, table, log_lines, log_block, events, ticks,
                   iters, exit_code, status_cells, ftime>>

NextGlitch ==
    \/ \E text \in Texts, mn \in 0..MaxPicks, mx \in 0..MaxPicks, cnt \in MIN_FRAMES..MAX_FRAMES :
          mn <= mx /\ Call(text, mn, mx, cnt)
    \/ \E k \in 0..MaxPicks : Frame(k)
    \/ Return

SpecGlitch == Init /\ [][NextGlitch]_vars

----------------------------------------------------------------------------
(* format_time *)

MaxSeconds == 86399

DigitChar(d) == <<"0", "1", "2", "3", "4", "5", "6", "7", "8", "9">>[d + 1]

\* the decimal digits of n, as the format specifier d writes them
RECURSIVE Digits(_)
Digits(n) == IF n < 10 THEN <<DigitChar(n)>> ELSE Digits(n \div 10) \o <<DigitChar(n % 10)>>

\* the format specifier 02d
Pad2(n) == IF n < 10 THEN <<"0">> \o Digits(n) ELSE Digits(n)

\* mutant: the minutes are not reduced by the second divmod
format_time_no_carry(seconds) ==
    LET m == seconds \div 60
        s == seconds % 60
        h == m \div 60
    IN  Pad2(h) \o <<":">> \o Pad2(m) \o <<":">> \o Pad2(s)

format_time(seconds) ==
    LET m0 == seconds \div 60
        s  == seconds % 60
        h  == m0 \div 60
        m  == m0 % 60
    IN  Pad2(h) \o <<":">> \o Pad2(m) \o <<":">> \o Pad2(s)

\* a call of format_time on a whole number of seconds is about to be made
InitTime ==
    /\ state = "RUNNING"
    /\ now = 0
    /\ last_status_glitch_time = 0
    /\ next_wait = 0
    /\ frames = 0
    /\ keys = <<>>
    /\ cpu = 0
    /\ mem = 0
    /\ status_text_val = ""
    /\ status_row = [text |-> "", color |-> [pair |-> 0, bold |-> FALSE]]
    /\ yielded = <<>>
    /\ enumerated = <<>>
    /\ processes = <<>>
    /\ rows = <<>>
    /\ table = [i \in 1..TOP_N_PROCS |-> Blank]
    /\ log_lines = <<>>
    /\ log_block = <<>>
    /\ events = <<>>
    /\ ticks = 0
    /\ iters = 0
    /\ exit_code = NoExit
    /\ status_cells = Spaces(STATUS_WIDTH)
    /\ anim = NoAnim
    /\ \E t \in 0..MaxSeconds : ftime = [NoTime EXCEPT !.seconds = t]

\* the call of format_time
FormatTime ==
    /\ ftime.out = <<>>
    /\ ftime' = [ftime EXCEPT !.out = format_time(ftime.seconds)]
    /\ UNCHANGED <<state, now, last_status_glitch_time, next_wait, frames, keys,
                   cpu, mem, status_text_val, status_row, yielded, enumerated,
                   processes, rows, table, log_lines, log_block, events, ticks,
                   iters, exit_code, status_cells, anim>>

NextTime == FormatTime

SpecTime == InitTime /\ [][NextTime]_vars

----------------------------------------------------------------------------
(* The loop with interrupt signals *)

\* where an iteration can be when the signal arrives: in getch, in the
\* sampling, in a frame of glitch_line, in the rendering, in the final sleep
InterruptPoints == {"poll", "sample", "glitch", "render", "sleep"}

NextInterrupt ==
    \/ \E k \in Keys : KeyPress(k)
    \/ \E w \in Waits, en \in LoopEnums :
          \E fr \in FrameChoices(w) : Iteration(85, 50, w, fr, WithPids(en))
    \/ \E p \in InterruptPoints, w \in Waits, en \in LoopEnums :
          \E fr \in FrameChoices(w) : Interrupt(p, 85, 50, w, fr, WithPids(en))

SpecInterrupt == Init /\ [][NextInterrupt]_vars

----------------------------------------------------------------------------
(* The process table: the first iteration of the loop over many enumerations *)

CpuVals == {10, 50, 90}

Proc(i, c, r) == [pid |-> i, cpu |-> c, read |-> r]

\* n processes, all idle (cpu 10) except those at places a and b
MarkedEnum(n, a, b, va, vb) ==
    [i \in 1..n |-> Proc(i, IF i = a THEN va ELSE IF i = b THEN vb ELSE 10, "ok")]

MarkedEnums ==
    {MarkedEnum(n, a, b, va, vb) :
        n \in 0..MaxProcs, a \in 0..MaxProcs, b \in 0..MaxProcs, va \in {50, 90}, vb \in {50, 90}}

\* every cpu value at every place, all reads succeeding
SmallEnums ==
    UNION {{WithPids(en) : en \in [1..n -> {Proc(0, c, "ok") : c \in CpuVals}]} : n \in 0..SmallLen}

\* every read outcome at every place
ReadEnums ==
    UNION {{WithPids(en) : en \in [1..n -> {Proc(0, c, r) : c \in {10, 90}, r \in Reads}]}
           : n \in 0..MaxReadProcs}

TableEnums == MarkedEnums \cup SmallEnums \cup ReadEnums

FirstIteration(en) ==
    /\ iters = 0
    /\ Iteration(10, 10, Sec(MIN_WAIT), MIN_FRAMES, en)

NextTable == \E en \in TableEnums : FirstIteration(en)

SpecTable == Init /\ [][NextTable]_vars

----------------------------------------------------------------------------
(* get_system_status over every pair of whole percentages *)

Percent == 0..100

InitStatus ==
    /\ cpu \in Percent
    /\ mem \in Percent
    /\ status_text_val = ""
    /\ state = "RUNNING"
    /\ keys = <<>>
    /\ now = 0
    /\ last_status_glitch_time = 0
    /\ next_wait = 0
    /\ frames = 0
    /\ status_row = [text |-> "", color |-> [pair |-> 0, bold |-> FALSE]]
    /\ yielded = <<>>
    /\ enumerated = <<>>
    /\ processes = <<>>
    /\ rows = <<>>
    /\ table = [i \in 1..TOP_N_PROCS |-> Blank]
    /\ log_lines = <<>>
    /\ log_block = <<>>
    /\ events = <<>>
    /\ iters = 0
    /\ ticks = 0
    /\ exit_code = NoExit
    /\ status_cells = Spaces(STATUS_WIDTH)
    /\ anim = NoAnim
    /\ ftime = NoTime

\* lines 128-135 on the sample (cpu, mem)
EvalStatus ==
    /\ status_text_val = ""
    /\ status_text_val' = get_system_status(cpu, mem)
    /\ status_row' = [text |-> status_text_val', color |-> StatusColor(status_text_val')]
    /\ UNCHANGED <<state, keys, now, last_status_glitch_time, next_wait, frames, cpu, mem,
                   yielded, enumerated, processes, rows, table, log_lines, log_block, events,
                   iters, ticks, exit_code, status_cells, call_vars>>

NextStatus == EvalStatus

SpecStatus == InitStatus /\ [][NextStatus]_vars

----------------------------------------------------------------------------
(* Properties *)

\* the step is one iteration of the loop
IterationStep == iters' = iters + 1
\* the step is an iteration that got past the key check (it reaches line 137)
TickStep == iters' = iters + 1 /\ state' # "EXITING"
\* the latest iteration ran to its sleep
LatestCompleted == iters > 0 /\ state = "RUNNING"

\* C1: on every tick the animation runs iff the time since last_glitch_time
\* exceeds next_wait, a value of [MIN_WAIT, MAX_WAIT] that stays the same over
\* the ticks between two triggers (after a tick without trigger the next tick
\* compares with the same next_wait).
C1_WaitHeldUntilTrigger ==
    [][TickStep =>
        /\ next_wait' \in Sec(MIN_WAIT)..Sec(MAX_WAIT)
        /\ (frames' > 0 <=> now - last_status_glitch_time > next_wait')
        /\ (iters > 0 /\ frames = 0 => next_wait' = next_wait)]_vars

\* C2: last_glitch_time is set at loop start, then changes only in a tick whose
\* animation ran, to the clock read after the animation's last frame; every
\* other step leaves it unchanged.
C2_GlitchTimeOnlyOnTrigger ==
    /\ [](iters = 0 => last_status_glitch_time = now)
    /\ [][IF TickStep /\ frames' > 0
          THEN last_status_glitch_time' = now + frames' * FRAME_DELAY
          ELSE last_status_glitch_time' = last_status_glitch_time]_vars

\* a tick without animation after a tick with one: the time of the earlier one is kept
C2_Witness ==
    /\ LatestCompleted
    /\ frames = 0
    /\ last_status_glitch_time > 0
    /\ now - last_status_glitch_time > REFRESH_RATE

\* C3: an iteration whose poll returns 'q' stops the loop at once: no sample,
\* no write to the screen, no log append, no sleep.
C3_QuitStopsAtOnce ==
    [][(IterationStep /\ keys # <<>> /\ Head(keys) = KEY_Q) =>
        /\ state' = "EXITING"
        /\ events' = <<"getch">>
        /\ UNCHANGED <<now, cpu, mem, status_text_val, status_row, table, log_lines,
                       log_block, last_status_glitch_time, ticks>>]_vars

\* the loop was left by 'q' after some ticks had drawn and logged
C3_Witness == state = "EXITING" /\ ticks >= 2 /\ Len(log_lines) >= 2

\* C4: the loop starts RUNNING and leaves RUNNING only when the polled key is
\* 'q'; any other poll continues with a full tick; after EXITING nothing
\* happens any more.
C4_LeavesRunningOnlyOnQuit ==
    /\ [](iters = 0 => state = "RUNNING")
    /\ [][IterationStep =>
            IF keys # <<>> /\ Head(keys) = KEY_Q
            THEN state' = "EXITING"
            ELSE /\ state' = "RUNNING"
                 /\ ticks' = ticks + 1
                 /\ events'[Len(events')] = "sleep"]_vars
    /\ [][state = "EXITING" => UNCHANGED <<state, now, cpu, mem, status_row, table,
                                           log_lines, log_block, events, iters, ticks>>]_vars

\* C5: the log never holds more than MAX_LOG_LINES entries, neither in the
\* buffer after a tick nor in the block drawn on the screen.
C5_LogBounded ==
    /\ Len(log_lines) <= MAX_LOG_LINES
    /\ Len(log_block) <= MAX_LOG_LINES

\* more ticks than the log holds lines: the oldest line was evicted
C5_Witness == ticks > MAX_LOG_LINES /\ Len(log_lines) = MAX_LOG_LINES

\* C6: one append per completed tick, first in first out: after k ticks the log
\* holds min(k, MAX_LOG_LINES) lines; each tick appends its own summary at the
\* end and, when the log was full, removes the oldest line only, the others
\* keeping their order; no other step changes the log.
C6_LogFifo ==
    /\ [](Len(log_lines) = Min(ticks, MAX_LOG_LINES))
    /\ [][IF ticks' = ticks + 1
          THEN LET kept == IF Len(log_lines) = MAX_LOG_LINES
                           THEN SubSeq(log_lines, 2, Len(log_lines)) ELSE log_lines
               IN  log_lines' = kept \o <<[ts |-> (now' - REFRESH_RATE) \div 100,
                                           cpu |-> cpu', mem |-> mem']>>
          ELSE log_lines' = log_lines]_vars

\* the log is full of lines that differ, after an eviction
C6_Witness ==
    /\ ticks > MAX_LOG_LINES
    /\ Len(log_lines) = MAX_LOG_LINES
    /\ log_lines[1] # log_lines[2]
    /\ log_lines[MAX_LOG_LINES].cpu # log_lines[1].cpu

\* the entries of an enumeration whose read succeeded, in order
RECURSIVE Readable(_)
Readable(en) ==
    IF en = <<>> THEN <<>>
    ELSE (IF Head(en).read = "ok" THEN <<[pid |-> Head(en).pid, cpu |-> Head(en).cpu]>> ELSE <<>>)
            \o Readable(Tail(en))

\* C7: a failed read of one process (vanished, access denied, or a field
\* reported as missing) never aborts the tick: the process list holds exactly
\* the readable processes and the tick runs to its flush and sleep.
C7_ReadFailureNeverAborts ==
    iters = 1 =>
        /\ state = "RUNNING"
        /\ ticks = 1
        /\ enumerated = Readable(yielded)
        /\ Len(events) >= 2
        /\ events[Len(events) - 1] = "refresh"
        /\ events[Len(events)] = "sleep"

\* the place of the process with pid q in the enumeration order
PlaceOf(q) == CHOOSE k \in 1..Len(enumerated) : enumerated[k].pid = q

\* C8: at most TOP_N_PROCS rows are drawn, they are the first
\* min(TOP_N_PROCS, count) of the tick's processes, in descending order of
\* cpu, and no process left out has more cpu than a drawn one.
C8_TopRowsSorted ==
    LatestCompleted =>
        /\ Len(rows) <= TOP_N_PROCS
        /\ Len(rows) = Min(TOP_N_PROCS, Len(enumerated))
        /\ \A i \in 1..Len(rows) - 1 : rows[i].cpu >= rows[i + 1].cpu
        /\ \A i \in 1..Len(rows) : \E k \in 1..Len(enumerated) : enumerated[k] = rows[i]
        /\ \A i, j \in 1..Len(rows) : i # j => rows[i].pid # rows[j].pid
        /\ \A k \in 1..Len(enumerated) :
              (\A i \in 1..Len(rows) : rows[i].pid # enumerated[k].pid) =>
                  \A i \in 1..Len(rows) : rows[i].cpu >= enumerated[k].cpu
        /\ \A i \in 1..Len(rows) : table[i] = rows[i]

\* more processes than rows, and one busy process enumerated after the first
\* TOP_N_PROCS is drawn on the first row
C8_Witness ==
    /\ LatestCompleted
    /\ Len(enumerated) > TOP_N_PROCS
    /\ Len(rows) = TOP_N_PROCS
    /\ rows[1].pid > TOP_N_PROCS
    /\ rows[1].cpu > rows[2].cpu

\* C9: the sort is stable: processes of equal cpu keep their enumeration
\* order, in the descending direction and across the cut after row TOP_N_PROCS.
C9_SortStable ==
    LatestCompleted =>
        /\ rows = SubSeq(processes, 1, Len(rows))
        /\ \A i, j \in 1..Len(processes) :
              (i < j /\ processes[i].cpu = processes[j].cpu) =>
                  PlaceOf(processes[i].pid) < PlaceOf(processes[j].pid)

\* ties among the drawn rows and a tie across the cut
C9_Witness ==
    /\ LatestCompleted
    /\ Len(processes) > TOP_N_PROCS
    /\ Len(rows) = TOP_N_PROCS
    /\ rows[1].cpu = rows[2].cpu
    /\ rows[2].cpu > rows[3].cpu
    /\ rows[TOP_N_PROCS].cpu = processes[TOP_N_PROCS + 1].cpu

\* C10: status evaluation, first match wins, lower bounds inclusive.
C10_StatusThresholds ==
    status_text_val # "" =>
        LET crit == cpu >= 80 \/ mem >= 85
            degr == cpu >= 60 \/ mem >= 70
            moni == cpu >= 40 \/ mem >= 60
        IN  /\ status_text_val \in {"CRITICAL", "DEGRADED", "MONITORING", "NOMINAL"}
            /\ status_text_val = "CRITICAL" <=> crit
            /\ status_text_val = "DEGRADED" <=> ~crit /\ degr
            /\ status_text_val = "MONITORING" <=> ~crit /\ ~degr /\ moni
            /\ status_text_val = "NOMINAL" <=> ~crit /\ ~degr /\ ~moni
            /\ (cpu = 85 /\ mem = 50 => status_text_val = "CRITICAL")
            /\ (cpu = 65 /\ mem = 50 => status_text_val = "DEGRADED")
            /\ (cpu = 45 /\ mem = 50 => status_text_val = "MONITORING")
            /\ (cpu = 10 /\ mem = 10 => status_text_val = "NOMINAL")
            /\ (cpu = 80 /\ mem = 0 => status_text_val = "CRITICAL")
            /\ (cpu = 79 /\ mem = 0 => status_text_val = "DEGRADED")

\* the boundary just below CRITICAL
C10_Witness == status_text_val = "DEGRADED" /\ cpu = 79 /\ mem = 0

\* C11: an interrupt signal at any point of the run (poll, sampling, a frame
\* of the animation, rendering, the sleep) ends the program with exit code 0;
\* only an uncaught error of the loop itself ends it with another code.
C11_InterruptExitsClean ==
    /\ (state = "INTERRUPTED" => exit_code = 0)
    /\ (state = "EXITING" => exit_code = 0)
    /\ (state = "RUNNING" => exit_code = NoExit)
    /\ (exit_code \notin {NoExit, 0} => state = "CRASHED")

\* the signal arrived during the sleep of an animation frame
C11_Witness ==
    /\ state = "INTERRUPTED"
    /\ frames > 0
    /\ events[Len(events)] = "glitch_sleep"
    /\ exit_code = 0

\* C12: a call of the glitch animator with an empty text and minChars >= 1
\* picks no index, raises no error and returns after its frames.
C12_EmptyTextGuarded ==
    (anim.text = <<>> /\ anim.min_chars >= 1 /\ anim.status # "idle")
        => /\ anim.status # "raised"
           /\ anim.status = "returned" => anim.done = anim.count

\* number of positions where two strings of the same length differ
Differ(a, b) == Cardinality({i \in 1..Len(a) : a[i] # b[i]})

\* C13: every frame written has the length of the text and differs from the
\* text in at most the number of positions chosen for that frame, itself at
\* most maxChars; with minChars = maxChars = 0 every frame equals the text.
C13_FramesFromFreshCopy ==
    anim.done > 0 =>
        /\ Len(anim.written) = Len(anim.text)
        /\ Differ(anim.written, anim.text) <= anim.picked
        /\ anim.picked <= anim.max_chars
        /\ (anim.min_chars = 0 /\ anim.max_chars = 0) => anim.written = anim.text

\* a later frame of a call that corrupts up to MaxPicks positions per frame
C13_Witness ==
    /\ anim.done >= 2
    /\ anim.picked = MaxPicks
    /\ Differ(anim.written, anim.text) = MaxPicks

\* C15: a call of the glitch animator that is over performed exactly
\* frameCount frames, each of them write, flush, sleep in that order, slept
\* frameCount times frameDelay, and left its last frame on the row.
C15_ExactlyFrameCountFrames ==
    anim.status \in {"returned", "raised"} =>
        /\ anim.count \in MIN_FRAMES..MAX_FRAMES
        /\ anim.done = anim.count
        /\ anim.calls = [i \in 1..(3 * anim.count) |-> FrameCalls[((i - 1) % 3) + 1]]
        /\ anim.slept = anim.count * FRAME_DELAY
        /\ now = anim.slept
        /\ status_cells = addstr(Spaces(STATUS_WIDTH), anim.written)

DigitVal(c) == CHOOSE d \in 0..9 : DigitChar(d) = c

IsDigit(c) == \E d \in 0..9 : DigitChar(d) = c

\* the number written in the two characters o[i], o[i + 1]
TwoDigits(o, i) == 10 * DigitVal(o[i]) + DigitVal(o[i + 1])

\* C14: format_time writes t as HH:MM:SS, zero padded, with H = t div 3600,
\* M = (t mod 3600) div 60 and S = t mod 60, so that H*3600 + M*60 + S = t
\* with M < 60 and S < 60; 3661, 0 and 86399 give 01:01:01, 00:00:00, 23:59:59.
C14_FormatTime ==
    ftime.out # <<>> =>
        LET o == ftime.out
            t == ftime.seconds
            H == TwoDigits(o, 1)
            M == TwoDigits(o, 4)
            S == TwoDigits(o, 7)
        IN  /\ Len(o) = 8
            /\ o[3] = ":" /\ o[6] = ":"
            /\ \A i \in {1, 2, 4, 5, 7, 8} : IsDigit(o[i])
            /\ H = t \div 3600
            /\ M = (t % 3600) \div 60
            /\ S = t % 60
            /\ H * 3600 + M * 60 + S = t
            /\ M < 60 /\ S < 60
            /\ t = 3661 => o = <<"0", "1", ":", "0", "1", ":", "0", "1">>
            /\ t = 0 => o = <<"0", "0", ":", "0", "0", ":", "0", "0">>
            /\ t = 86399 => o = <<"2", "3", ":", "5", "9", ":", "5", "9">>

\* the last second of a day, formatted
C14_Witness ==
    /\ ftime.seconds = 86399
    /\ ftime.out = <<"2", "3", ":", "5", "9", ":", "5", "9">>

\* the latest iteration ran to its final flush and sleep
TickCompleted == events # <<>> /\ events[Len(events)] = "sleep"

\* the places of the call named c among the calls of the latest iteration
CallsAt(c) == {i \in 1..Len(events) : events[i] = c}

C17_LogDrawnBeforeAppend ==
    [][ticks' = ticks + 1 => log_block' = DrawLog(log_block, log_lines)]_vars

\* C17, amended: the summary of a tick is appended (with the eviction) before
\* the log block of that tick is drawn, so the block drawn during tick k is the
\* log after the append and its last line is tick k's own summary.
C17_LogDrawnAfterAppend ==
    [][ticks' = ticks + 1 =>
        /\ log_block' = log_lines'
        /\ log_lines' = AppendLog(log_lines, LogMessage(now' - REFRESH_RATE, cpu', mem'))
        /\ log_block'[Len(log_block')] = LogMessage(now' - REFRESH_RATE, cpu', mem')
        /\ \E a \in 1..Len(events') :
              /\ events'[a] = "log_append"
              /\ \A i \in 1..Len(events') : events'[i] = "addstr_log" => a < i
              /\ \E i \in 1..Len(events') : events'[i] = "addstr_log"]_vars

\* a tick drew a full block after its append evicted the oldest line, and the
\* last line of the block is the summary of that tick
C17_Witness ==
    /\ TickCompleted
    /\ ticks > MAX_LOG_LINES
    /\ Len(log_block) = MAX_LOG_LINES
    /\ log_block = log_lines
    /\ log_block[MAX_LOG_LINES].cpu = cpu
    /\ log_block[MAX_LOG_LINES].cpu # log_block[MAX_LOG_LINES - 1].cpu

\* the places of the pending 'q' keys in the input queue
QuitsPending == {i \in 1..Len(keys) : keys[i] = KEY_Q}

\* C18: every iteration polls once, at its start, and reads at most one key;
\* a 'q' typed during a tick does not stop that tick; a pending 'q' moves one
\* place forward per poll and the loop exits at the poll that reads it, so
\* the program never ends otherwise while a 'q' is still unread.
C18_PendingQuitHonoured ==
    /\ [][IterationStep =>
            /\ events'[1] = "getch"
            /\ Cardinality({i \in 1..Len(events') : events'[i] = "getch"}) = 1
            /\ keys' = (IF keys = <<>> THEN keys ELSE Tail(keys))
            /\ (1 \in QuitsPending <=> state' = "EXITING")]_vars
    /\ [][(\E k \in Keys : KeyPressQueued(k)) => (state' = state /\ ticks' = ticks)]_vars
    /\ [](QuitsPending # {} => state \in {"RUNNING", "EXITING"})

\* C19: the table is never cleared: a completed tick with c rows writes the
\* first c rows of the table and leaves every row below them as it was, and
\* no other step changes the table; after the process count dropped, the rows
\* below still show entries of an earlier tick.
C19_TableRowsNeverCleared ==
    /\ [][ticks' = ticks + 1 =>
            /\ Len(rows') <= TOP_N_PROCS
            /\ \A i \in 1..TOP_N_PROCS :
                  table'[i] = (IF i <= Len(rows') THEN rows'[i] ELSE table[i])]_vars
    /\ [][ticks' = ticks => table' = table]_vars

\* a completed tick drew no row and the first row still shows the process of
\* an earlier tick
C19_Witness ==
    /\ TickCompleted
    /\ ticks >= 2
    /\ rows = <<>>
    /\ table[1] # Blank

\* the time since last_glitch_time when an iteration starts
Elapsed == now - last_status_glitch_time

\* C20: whatever wait is drawn, a tick at which the elapsed time is at most
\* MIN_WAIT runs no animation and a tick at which it exceeds MAX_WAIT runs
\* one; so an animation starts more than MIN_WAIT after the previous one
\* ended, and while the loop runs the elapsed time never exceeds
\* MAX_WAIT + REFRESH_RATE at the start of a tick (the animation keeps
\* recurring).
C20_GlitchWithinWaitBounds ==
    /\ [][TickStep =>
            /\ Elapsed <= Sec(MIN_WAIT) =>
                  (frames' = 0 /\ last_status_glitch_time' = last_status_glitch_time)
            /\ Elapsed > Sec(MAX_WAIT) =>
                  (frames' > 0 /\ last_status_glitch_time' = GlitchEnd(now, frames'))
            /\ frames' > 0 => Elapsed > Sec(MIN_WAIT)]_vars
    /\ [](state = "RUNNING" => Elapsed <= Sec(MAX_WAIT) + REFRESH_RATE)

\* the first animation of a run, started more than MAX_WAIT after the start:
\* every wait drawn until then was not exceeded
C20_Witness ==
    /\ TickCompleted
    /\ frames > 0
    /\ last_status_glitch_time - frames * FRAME_DELAY = (ticks - 1) * REFRESH_RATE
    /\ (ticks - 1) * REFRESH_RATE > Sec(MAX_WAIT)

====
